---- MODULE Spec2Model ----
(***************************************************************************)
(* Product-catalog HTTP API (fastapi-ecommerce/app/main.py).               *)
(*                                                                         *)
(* The state is the stored catalog (the ordered sequence of product        *)
(* records the storage helpers read and write) together with the request   *)
(* being served, the values of the handler's local variables at the end of *)
(* the handler, and the response it produced.  Each route handler is one   *)
(* action; requests are served one at a time, and Respond ends the request *)
(* scope (the response is sent and the handler's locals are dropped).      *)
(*                                                                         *)
(* A Python str is modelled as a sequence of one-character strings, a dict *)
(* as a function whose domain is its set of keys (so that dict.get with a  *)
(* default is a real test on the domain).                                  *)
(***************************************************************************)
EXTENDS Integers, Sequences, FiniteSets, TLC

VARIABLES
    catalog,       \* the stored sequence of product records
    request,       \* the request being served, [op |-> "none"] when idle
    dep,           \* the sequence the handler loaded from storage
    filtered,      \* list_products: `products` after the filter step
    ordered,       \* list_products: `products` after the sort step
    product_dict,  \* create_product: the record handed to add_product
    response       \* the handler's outcome

vars == <<catalog, request, dep, filtered, ordered, product_dict, response>>

----------------------------------------------------------------------------
(* Bounds of the model *)

\* longest catalog considered
MaxCatalog == 2

(* Program constants *)

\* limit: Query(ge=1, le=100)
MinLimit == 1
MaxLimit == 100
\* offset: Query(ge=0)
MinOffset == 0

\* Python's None where a str may stand: a value no str over Chars equals
None == <<"None">>

----------------------------------------------------------------------------
(* Input universes *)

Chars == {"a", "A", " "}
Whitespace == {" "}

IDs == {"id1", "id2"}
Prices == {0, 1}
Timestamps == {"t1"}

\* Records as they may stand in the stored catalog: id always present (the
\* lookup reads product["id"]), name and price possibly absent (the listing
\* reads both with dict.get).  Nothing in the handlers keeps ids unique.
\* The pool has both ids, both names and both prices in complete records,
\* and a record without price, one without name and one without either.
FileRecords ==
    { [id |-> "id1", name |-> <<"A">>, price |-> 0],
      [id |-> "id2", name |-> <<"A">>, price |-> 1],
      [id |-> "id1", name |-> <<"a", " ", "a">>, price |-> 1],
      [id |-> "id2", name |-> <<"a", " ", "a">>, price |-> 0],
      [id |-> "id1", name |-> <<"A">>],
      [id |-> "id2", price |-> 1],
      [id |-> "id2"] }

Catalogs == UNION {[1..n -> FileRecords] : n \in 0..MaxCatalog}

\* name: Query(default=None, min_length=1, max_length=50): omitted, or a
\* non-empty str; upper and lower case, leading, trailing, inner and only
\* whitespace, and a value no record name contains
NameParams ==
    { None, <<"a">>, <<"A">>, <<" ">>, <<" ", " ">>, <<" ", "a">>, <<"A", " ">>,
      <<"a", "a">>, <<"a", " ", "A">> }
\* order: Query(default="asc"), any string is accepted
Orders == {"asc", "desc", "Desc"}
Limits == {MinLimit, MaxLimit}
\* offsets up to the length of the longest catalog
Offsets == MinOffset..MaxCatalog
\* product_id of a lookup: the ids in use and one no record has
LookupIDs == IDs \cup {"id3"}
\* bodies of POST /products as the Product schema dumps them: name and price,
\* with or without an id and a created_at sent by the client
Payloads ==
    { [name |-> <<"A">>, price |-> 1],
      [name |-> <<"A">>, price |-> 1, id |-> "id2", created_at |-> "t0"] }

----------------------------------------------------------------------------
(* Python built-ins used by the handlers *)

\* str.lower
lower(s) == [i \in 1..Len(s) |-> IF s[i] = "A" THEN "a" ELSE s[i]]

\* str.strip: drop leading and trailing whitespace
RECURSIVE lstrip(_)
lstrip(s) == IF s # <<>> /\ Head(s) \in Whitespace THEN lstrip(Tail(s)) ELSE s

RECURSIVE rstrip(_)
rstrip(s) ==
    IF s # <<>> /\ s[Len(s)] \in Whitespace
    THEN rstrip(SubSeq(s, 1, Len(s) - 1))
    ELSE s

strip(s) == rstrip(lstrip(s))

\* needle in hay, for two str values
contains(needle, hay) ==
    \E k \in 0..(Len(hay) - Len(needle)) :
        \A i \in 1..Len(needle) : hay[k + i] = needle[i]

\* dict.get(key, default)
get(p, key, default) == IF key \in DOMAIN p THEN p[key] ELSE default

\* truthiness of a str-or-None value
truthy(s) == s # None /\ s # <<>>

\* list[lo:hi] for 0 <= lo <= hi (0-based, hi exclusive, clamped to the list)
slice(xs, lo, hi) ==
    LET n  == Len(xs)
        l  == IF lo > n THEN n ELSE lo
        h  == IF hi > n THEN n ELSE hi
    IN  SubSeq(xs, l + 1, h)

reversed(xs) == [i \in 1..Len(xs) |-> xs[Len(xs) + 1 - i]]

price_key(p) == get(p, "price", 0)

\* insert x behind every element whose key is <= key(x)
RECURSIVE insert_sorted(_, _)
insert_sorted(x, xs) ==
    IF xs = <<>> THEN <<x>>
    ELSE IF price_key(Head(xs)) <= price_key(x)
         THEN <<Head(xs)>> \o insert_sorted(x, Tail(xs))
         ELSE <<x>> \o xs

\* stable ascending sort by price
RECURSIVE stable_sort(_)
stable_sort(xs) ==
    IF xs = <<>> THEN <<>>
    ELSE insert_sorted(xs[Len(xs)], stable_sort(SubSeq(xs, 1, Len(xs) - 1)))

\* a descending sort that reverses the ascending result
sorted_reversing(products, reverse) ==
    IF reverse THEN reversed(stable_sort(products)) ELSE stable_sort(products)

\* a sort that ignores reverse
sorted_ascending_only(products, reverse) == stable_sort(products)

\* sorted(products, key=price, reverse=reverse): list.sort reverses the list,
\* sorts it stably and reverses it again when reverse is set
sorted(products, reverse) ==
    IF reverse
    THEN reversed(stable_sort(reversed(products)))
    ELSE stable_sort(products)

----------------------------------------------------------------------------
(* GET /products *)

\* a needle that is lower-cased but not stripped
filter_needle_unstripped(name) == lower(name)

\* a needle that is stripped but not lower-cased
filter_needle_cased(name) == strip(name)

\* needle = name.strip().lower()
filter_needle(name) == lower(strip(name))

\* needle in p.get("name", "").lower()
name_matches(p, needle) == contains(needle, lower(get(p, "name", <<>>)))

\* if name: products = [p for p in products if ...]
filter_by_name(products, name) ==
    IF truthy(name)
    THEN SelectSeq(products, LAMBDA p : name_matches(p, filter_needle(name)))
    ELSE products

\* a comparison of order that ignores case
is_reverse_any_case(order) == order \in {"desc", "Desc", "DESC"}

is_reverse(order) == order = "desc"

sort_products(products, sort_by_price, order) ==
    IF sort_by_price THEN sorted(products, is_reverse(order)) ELSE products

\* a slice that takes limit as the end index
paginate_to_limit(products, limit, offset) == slice(products, offset, limit)

\* products[offset : offset + limit]
paginate(products, limit, offset) == slice(products, offset, offset + limit)

\* if not products
no_match(products) == products = <<>>

\* a handler that checks for emptiness only when it has filtered
list_products_check_in_filter(d, name, sort_by_price, order, limit, offset) ==
    LET f == filter_by_name(d, name)
        s == sort_products(f, sort_by_price, order)
    IN  IF truthy(name) /\ no_match(f)
        THEN [filtered |-> f, ordered |-> <<>>,
              response |-> [status |-> 404, detail |-> name]]
        ELSE [filtered |-> f, ordered |-> s,
              response |-> [status |-> 200, total |-> Len(s), limit |-> limit,
                            offset |-> offset, items |-> paginate(s, limit, offset)]]

\* a handler that counts total after slicing
list_products_total_of_page(d, name, sort_by_price, order, limit, offset) ==
    LET f == filter_by_name(d, name)
        s == sort_products(f, sort_by_price, order)
    IN  IF no_match(f)
        THEN [filtered |-> f, ordered |-> <<>>,
              response |-> [status |-> 404, detail |-> name]]
        ELSE [filtered |-> f, ordered |-> s,
              response |-> [status |-> 200, total |-> Len(paginate(s, limit, offset)),
                            limit |-> limit, offset |-> offset,
                            items |-> paginate(s, limit, offset)]]

\* the handler's body, lines 92-109: the values of `products` after the filter
\* and after the sort, and the outcome
list_products(d, name, sort_by_price, order, limit, offset) ==
    LET f == filter_by_name(d, name)
        s == sort_products(f, sort_by_price, order)
    IN  IF no_match(f)
        THEN [filtered |-> f, ordered |-> <<>>,
              response |-> [status |-> 404, detail |-> name]]
        ELSE [filtered |-> f, ordered |-> s,
              response |-> [status |-> 200, total |-> Len(s), limit |-> limit,
                            offset |-> offset, items |-> paginate(s, limit, offset)]]


\* dep=Depends(load_products): the stored sequence, read once per request
load_products == catalog

ListProducts ==
    /\ request.op = "none"
    /\ \E name \in NameParams, sort_by_price \in BOOLEAN, order \in Orders,
          limit \in Limits, offset \in Offsets :
        LET r == list_products(load_products, name, sort_by_price, order, limit, offset)
        IN  /\ request' = [op |-> "list_products", name |-> name,
                           sort_by_price |-> sort_by_price, order |-> order,
                           limit |-> limit, offset |-> offset]
            /\ dep' = load_products
            /\ filtered' = r.filtered
            /\ ordered' = r.ordered
            /\ response' = r.response
    /\ UNCHANGED <<catalog, product_dict>>

----------------------------------------------------------------------------
(* GET /products/{product_id} *)

get_all_products == catalog

\* a lookup that compares only the first product
get_product_by_id_first_only(products, product_id) ==
    IF products # <<>> /\ Head(products)["id"] = product_id
    THEN [status |-> 200, body |-> Head(products)]
    ELSE [status |-> 404, detail |-> "Product not found"]

\* the for loop: the first product whose id equals product_id, else 404
RECURSIVE get_product_by_id(_, _)
get_product_by_id(products, product_id) ==
    IF products = <<>>
    THEN [status |-> 404, detail |-> "Product not found"]
    ELSE IF Head(products)["id"] = product_id
         THEN [status |-> 200, body |-> Head(products)]
         ELSE get_product_by_id(Tail(products), product_id)

GetProductById ==
    /\ request.op = "none"
    /\ \E product_id \in LookupIDs :
        /\ request' = [op |-> "get_product_by_id", product_id |-> product_id]
        /\ dep' = get_all_products
        /\ response' = get_product_by_id(get_all_products, product_id)
    /\ UNCHANGED <<catalog, filtered, ordered, product_dict>>

----------------------------------------------------------------------------
(* POST /products *)

\* d[key] = value on a dict
set_item(d, key, value) ==
    [k \in DOMAIN d \cup {key} |-> IF k = key THEN value ELSE d[k]]

\* product.model_dump(mode="json"): a fresh dict of the payload's fields
model_dump(product) == product

\* product_dict after lines 132-134
new_product_dict(product, uuid, now) ==
    set_item(set_item(model_dump(product), "id", uuid), "created_at", now)

\* the storage helper: appends the record to the stored sequence
add_product(products, p) == Append(products, p)

\* the body create_product returns once add_product has accepted the record
create_product_body(product, pd) == model_dump(product)

CreateProduct ==
    /\ request.op = "none"
    /\ Len(catalog) < MaxCatalog
    /\ \E product \in Payloads, uuid \in IDs, now \in Timestamps, rejected \in BOOLEAN :
        LET pd == new_product_dict(product, uuid, now)
        IN  /\ request' = [op |-> "create_product", product |-> product]
            /\ product_dict' = pd
            /\ IF rejected
               THEN /\ response' = [status |-> 400, detail |-> "ValueError"]
                    /\ UNCHANGED catalog
               ELSE /\ response' = [status |-> 201, body |-> create_product_body(product, pd)]
                    /\ catalog' = add_product(catalog, pd)
    /\ UNCHANGED <<dep, filtered, ordered>>

----------------------------------------------------------------------------
(* End of a request: the response is sent and the handler's locals dropped *)

Idle ==
    /\ request = [op |-> "none"]
    /\ dep = <<>>
    /\ filtered = <<>>
    /\ ordered = <<>>
    /\ product_dict = [id |-> None]
    /\ response = [status |-> 0]

Respond ==
    /\ request.op # "none"
    /\ request' = [op |-> "none"]
    /\ dep' = <<>>
    /\ filtered' = <<>>
    /\ ordered' = <<>>
    /\ product_dict' = [id |-> None]
    /\ response' = [status |-> 0]
    /\ UNCHANGED catalog

----------------------------------------------------------------------------

Init ==
    /\ catalog \in Catalogs
    /\ Idle

Next ==
    \/ ListProducts
    \/ GetProductById
    \/ CreateProduct
    \/ Respond

Spec == Init /\ [][Next]_vars

----------------------------------------------------------------------------
(* Vocabulary of the properties, stated without the handlers' helpers *)

Listing == request.op = "list_products"
Listed == Listing /\ response.status = 200

\* the price a record is ordered by, a missing price counting as 0
PriceOf(p) == IF "price" \in DOMAIN p THEN p["price"] ELSE 0

\* the name a record is searched by, a missing name counting as empty
NameOf(p) == IF "name" \in DOMAIN p THEN p["name"] ELSE <<>>

\* s with upper-case letters replaced by their lower-case letters
Fold(s) == [i \in 1..Len(s) |-> CASE s[i] = "A" -> "a" [] OTHER -> s[i]]

\* s without its leading and trailing whitespace
Trimmed(s) ==
    LET solid == {i \in 1..Len(s) : s[i] \notin Whitespace}
    IN  IF solid = {} THEN <<>>
        ELSE SubSeq(s, CHOOSE i \in solid : \A j \in solid : i <= j,
                       CHOOSE i \in solid : \A j \in solid : j <= i)

\* t occurs in s as a contiguous run
IsSubstring(t, s) == \E i \in 1..(Len(s) + 1) : \E j \in (i - 1)..Len(s) : SubSeq(s, i, j) = t

Reverse(xs) == [i \in 1..Len(xs) |-> xs[Len(xs) - i + 1]]

PricesOf(xs) == [i \in 1..Len(xs) |-> PriceOf(xs[i])]

\* the handler's result for the request being served with order replaced
WithOrder(o) ==
    list_products(dep, request.name, request.sort_by_price, o, request.limit, request.offset)

----------------------------------------------------------------------------
(* Properties *)

\* C1: whenever the filtered sequence of list_products is empty, also when
\* no name is supplied and the catalog is empty, the outcome is the 404 "no
\* matching products" error; a successful response never has total 0.
C1_EmptyResultIs404 ==
    Listing =>
        /\ filtered = <<>> => (response.status = 404 /\ response.detail = request.name)
        /\ response.status = 200 => response.total # 0

C1_Witness ==
    /\ Listing
    /\ request.name = None
    /\ dep = <<>>
    /\ response.status = 404

\* C2: with a non-empty filtered result list_products succeeds and items is
\* full_result[offset:offset+limit]: at most limit items, the items from
\* position offset on, and no items (not an error) when offset is at or
\* beyond the end.
C2_ItemsAreTheSlice ==
    (Listing /\ filtered # <<>>) =>
        /\ response.status = 200
        /\ Len(response.items) <= request.limit
        /\ Len(response.items) =
              IF request.offset >= Len(ordered) THEN 0
              ELSE IF Len(ordered) - request.offset < request.limit
                   THEN Len(ordered) - request.offset
                   ELSE request.limit
        /\ \A i \in 1..Len(response.items) : response.items[i] = ordered[request.offset + i]

C2_Witness ==
    /\ Listed
    /\ Len(ordered) = 2
    /\ request.offset = 2
    /\ response.items = <<>>
    /\ response.total = 2

\* C3: in a successful response total is the number of records that pass
\* the filter, counted before pagination, and is the same for every limit
\* and offset.
C3_TotalIsFilteredCount ==
    Listed =>
        /\ response.total = Len(filtered)
        /\ \A l \in Limits, o \in Offsets :
              list_products(dep, request.name, request.sort_by_price, request.order, l, o)
                  .response.total = response.total

C3_Witness ==
    /\ Listed
    /\ Len(filtered) < Len(dep)
    /\ Len(response.items) < response.total

\* C4 as stated: with a name parameter the filter keeps exactly the records
\* whose case-folded name contains the case-folded name parameter, in
\* catalog order, and never a record without a name field.
C4_FilterByFoldedName ==
    (Listing /\ request.name # None) =>
        /\ filtered = SelectSeq(dep, LAMBDA p : IsSubstring(Fold(request.name), Fold(NameOf(p))))
        /\ \A i \in 1..Len(filtered) : "name" \in DOMAIN filtered[i]

\* C4 as amended: with a name parameter the filter keeps exactly the records
\* whose case-folded name contains the trimmed and case-folded name
\* parameter, in catalog order; a record without a name field is never kept
\* by a name parameter that is non-empty after trimming.
C4_FilterByTrimmedFoldedName ==
    (Listing /\ request.name # None) =>
        /\ filtered = SelectSeq(dep, LAMBDA p :
                          IsSubstring(Fold(Trimmed(request.name)), Fold(NameOf(p))))
        /\ Trimmed(request.name) # <<>> =>
              \A i \in 1..Len(filtered) : "name" \in DOMAIN filtered[i]

C4_Witness ==
    /\ Listing
    /\ request.name = <<" ", "a">>
    /\ filtered # <<>>
    /\ \E i \in 1..Len(dep) : "name" \notin DOMAIN dep[i]
    /\ \E i \in 1..Len(filtered) : filtered[i]["name"] = <<"A">>

\* C5: with sort_by_price the sort is stable for both order values: the
\* records of each price (a missing price counting as 0) stand in the sorted
\* sequence in the order they have in the filtered sequence.
C5_SortIsStable ==
    (Listed /\ request.sort_by_price) =>
        \A v \in Prices :
            SelectSeq(ordered, LAMBDA p : PriceOf(p) = v)
                = SelectSeq(filtered, LAMBDA p : PriceOf(p) = v)

C5_Witness ==
    /\ Listed
    /\ request.sort_by_price
    /\ request.order = "desc"
    /\ Len(filtered) = 2
    /\ filtered[1] # filtered[2]
    /\ "price" \notin DOMAIN filtered[1]
    /\ PriceOf(filtered[2]) = 0

\* C6 as stated: with sort_by_price the sequence sorted with order "desc" is
\* exactly the reverse of the sequence sorted with order "asc".
C6_DescIsReverseOfAsc ==
    (Listed /\ request.sort_by_price /\ request.order = "desc") =>
        ordered = Reverse(WithOrder("asc").ordered)

\* C6 as amended: with sort_by_price the prices of the sequence sorted with
\* order "desc" are the prices of the sequence sorted with order "asc" in
\* reverse, and the sequence itself is exactly the reverse when no two
\* records of the filtered sequence have the same price.
C6_DescReversesPrices ==
    (Listed /\ request.sort_by_price /\ request.order = "desc") =>
        /\ PricesOf(ordered) = Reverse(PricesOf(WithOrder("asc").ordered))
        /\ (\A i, j \in 1..Len(filtered) : i # j => PriceOf(filtered[i]) # PriceOf(filtered[j]))
              => ordered = Reverse(WithOrder("asc").ordered)

C6_Witness ==
    /\ Listed
    /\ request.sort_by_price
    /\ request.order = "desc"
    /\ Len(filtered) = 2
    /\ PriceOf(filtered[1]) < PriceOf(filtered[2])
    /\ ordered = <<filtered[2], filtered[1]>>

\* C7: with sort_by_price an order other than the exact string "desc" is
\* never rejected and gives the result that order "asc" gives.
C7_OtherOrderIsAscending ==
    (Listing /\ request.sort_by_price /\ request.order # "desc") =>
        /\ response.status \in {200, 404}
        /\ response = WithOrder("asc").response
        /\ ordered = WithOrder("asc").ordered

C7_Witness ==
    /\ Listed
    /\ request.sort_by_price
    /\ request.order = "Desc"
    /\ ordered # WithOrder("desc").ordered

\* C8: get_product_by_id returns the first record, in catalog order, whose id
\* equals the requested id, and answers 404 "Product not found" exactly when
\* no record has that id.
C8_LookupReturnsFirstMatch ==
    request.op = "get_product_by_id" =>
        LET hits == {i \in 1..Len(dep) : dep[i]["id"] = request.product_id}
        IN  /\ response.status \in {200, 404}
            /\ response.status = 404 <=> hits = {}
            /\ response.status = 404 => response.detail = "Product not found"
            /\ response.status = 200 =>
                  \E i \in hits : (\A j \in hits : i <= j) /\ response.body = dep[i]

C8_Witness ==
    /\ request.op = "get_product_by_id"
    /\ response.status = 200
    /\ Len(dep) = 2
    /\ dep[1]["id"] # request.product_id
    /\ response.body = dep[2]

\* C9: the body of a 201 response of create_product is the stored record,
\* with the id and the created_at generated during the request and handed to
\* the storage helper; a record the storage helper rejects gives a 400.
C9_CreatedBodyIsStoredRecord ==
    request.op = "create_product" =>
        /\ response.status \in {201, 400}
        /\ response.status = 201 =>
              /\ catalog # <<>> /\ catalog[Len(catalog)] = product_dict
              /\ response.body = product_dict

\* C10: a whitespace-only name parameter is no filter: the filtered sequence
\* is the whole catalog, records without a name field included, and total,
\* items and the outcome are those of the request without name.
C10_BlankNameIsNoFilter ==
    (Listing /\ request.name # None /\ Trimmed(request.name) = <<>>) =>
        LET r == list_products(dep, None, request.sort_by_price, request.order,
                               request.limit, request.offset)
        IN  /\ filtered = dep
            /\ response.status = r.response.status
            /\ response.status = 200 =>
                  /\ response.total = r.response.total
                  /\ response.items = r.response.items

C10_Witness ==
    /\ Listed
    /\ request.name = <<" ", " ">>
    /\ \E i \in 1..Len(filtered) : "name" \notin DOMAIN filtered[i]
    /\ \E i \in 1..Len(filtered) : "name" \in DOMAIN filtered[i]

====
